---- MODULE Spec2Model ----
(***************************************************************************)
(* Model of src/src/main.ts: the Device software rasteriser (back buffer,  *)
(* clear / present / putPixel / project / drawPoint / render) and the      *)
(* init + drawingLoop frame driver.                                         *)
(*                                                                         *)
(* Numbers.  JavaScript numbers are modelled in fixed point: the integer n *)
(* stands for the real n / Den.  Den is even, so width / 2.0 is exact.     *)
(* NotFinite stands for NaN, +Infinity and -Infinity together (they behave *)
(* alike in every expression of main.ts for a positive width and height).  *)
(* Bytes, pixel indices, widths and heights are plain integers.            *)
(***************************************************************************)
EXTENDS Integers, Sequences, FiniteSets

\* ---------------------------------------------------------------- bounds
Res == 2
MaxWidth == 2
MaxHeight == 2
MaxFrames == 2
MaxMeshes == 2
MaxVertices == 2

Den == 2 * Res
NotFinite == 0 - 1000000

\* ---------------------------------------------------------------- numbers

\* A plain integer as a number.
FromInt(k) == k * Den

\* Mutant of ToInt32: Math.floor instead of the truncating shift.
ToInt32Floor(v) ==
  IF v = NotFinite THEN 0 ELSE v \div Den

\* `v >> 0`: ToInt32 of a number.  NaN and the infinities give 0; a finite
\* value is truncated toward zero (every value of the model is far below
\* 2^31 in magnitude, where the modulo 2^32 step is the identity).
ToInt32(v) ==
  IF v = NotFinite THEN 0
  ELSE IF v >= 0 THEN v \div Den
  ELSE 0 - ((0 - v) \div Den)

\* Storing the number c * 255 into a Uint8ClampedArray element: round to the
\* nearest integer, ties to even, clamped to 0..255; NaN stores 0.
ToUint8Clamp(c) ==
  IF c = NotFinite THEN 0
  ELSE LET n == c * 255
           q == n \div Den
           r == n % Den
           rounded == IF 2 * r < Den THEN q
                      ELSE IF 2 * r > Den THEN q + 1
                      ELSE IF q % 2 = 0 THEN q ELSE q + 1
       IN IF rounded < 0 THEN 0 ELSE IF rounded > 255 THEN 255 ELSE rounded

\* new Color4(1, 1, 0, 1)
Yellow == <<Den, Den, 0, Den>>
\* the colours passed to putPixel
Colors == {Yellow}

\* ---------------------------------------------------------------- buffers

Zeros(n) == [i \in 1..n |-> 0]

\* An ImageData object; Undefined is the value of the field before clear().
ImageData(w, h, d) == [width |-> w, height |-> h, data |-> d]
Undefined == ImageData(0, 0, <<>>)

\* Mutant of TypedArraySet: a plain Array, which grows on a write past its end.
ArraySet(data, i, v) ==
  IF i < 0 THEN data
  ELSE IF i < Len(data) THEN [data EXCEPT ![i + 1] = v]
  ELSE data \o Zeros(i - Len(data)) \o <<v>>

\* data[i] = v on a Uint8ClampedArray (i is 0-based): an index outside
\* 0..length-1 is ignored, without an exception and without resizing.
TypedArraySet(data, i, v) ==
  IF i >= 0 /\ i < Len(data) THEN [data EXCEPT ![i + 1] = v] ELSE data

\* Mutant of ClearRect: the canvas is not cleared.
ClearRectNothing(pixels, w, h) == pixels

\* workingContext.clearRect(0, 0, w, h) on a canvas of w x h pixels: every
\* pixel becomes transparent black.
ClearRect(pixels, w, h) == Zeros(Len(pixels))

\* workingContext.getImageData(0, 0, w, h): a new w x h ImageData holding a
\* copy of the canvas pixels (exact for opaque and for fully transparent
\* black pixels, the only ones the model stores).
GetImageData(pixels, w, h) == ImageData(w, h, SubSeq(pixels, 1, w * h * 4))

\* Mutant of PutImageData: only the first row is copied.
PutImageDataFirstRow(pixels, image) ==
  [i \in 1..Len(pixels) |->
     IF i <= image.width * 4 /\ i <= Len(image.data) THEN image.data[i] ELSE pixels[i]]

\* workingContext.putImageData(image, 0, 0) on a canvas of the same size.
PutImageData(pixels, image) ==
  [i \in 1..Len(pixels) |-> IF i <= Len(image.data) THEN image.data[i] ELSE pixels[i]]

\* ---------------------------------------------------------------- Device

Vector2(x, y) == [x |-> x, y |-> y]

\* Mutant of PutPixelIndex: the row stride is forgotten.
PutPixelIndexNoStride(x, y, w) == (ToInt32(x) + ToInt32(y)) * 4

\* main.ts line 65: ((x >> 0) + (y >> 0) * this.workingWidth) * 4
PutPixelIndex(x, y, w) == (ToInt32(x) + ToInt32(y) * w) * 4

\* Mutant of PutPixelData: putPixel guarded by its own bounds check.
PutPixelDataGuarded(data, x, y, color, w) ==
  IF ToInt32(x) >= 0 /\ ToInt32(x) < w /\ ToInt32(y) >= 0
     /\ PutPixelIndex(x, y, w) + 3 < Len(data)
  THEN LET index == PutPixelIndex(x, y, w)
       IN [i \in 1..Len(data) |->
             IF i > index /\ i <= index + 4 THEN ToUint8Clamp(color[i - index])
             ELSE data[i]]
  ELSE data

\* putPixel, lines 65-73, on the bytes of an existing back buffer.
PutPixelData(data, x, y, color, w) ==
  LET index == PutPixelIndex(x, y, w)
      d0 == TypedArraySet(data, index, ToUint8Clamp(color[1]))
      d1 == TypedArraySet(d0, index + 1, ToUint8Clamp(color[2]))
      d2 == TypedArraySet(d1, index + 2, ToUint8Clamp(color[3]))
  IN TypedArraySet(d2, index + 3, ToUint8Clamp(color[4]))

\* project, lines 84-86, applied to the point TransformCoordinates returned.
Project(point, w, h) ==
  LET sx == IF point.x = NotFinite THEN NotFinite
            ELSE point.x * w + (FromInt(w) \div 2)
      sy == IF point.y = NotFinite THEN NotFinite
            ELSE (0 - point.y) * h + (FromInt(h) \div 2)
  IN Vector2(FromInt(ToInt32(sx)), FromInt(ToInt32(sy)))

\* Mutant of Visible: the upper bounds are compared with <=.
VisibleInclusive(point, w, h) ==
  /\ point.x # NotFinite /\ point.y # NotFinite
  /\ point.x >= 0 /\ point.y >= 0
  /\ point.x <= FromInt(w) /\ point.y <= FromInt(h)

\* Mutant of Visible: the lower bounds are not tested.
VisibleNoLower(point, w, h) ==
  /\ point.x # NotFinite /\ point.y # NotFinite
  /\ point.x < FromInt(w) /\ point.y < FromInt(h)

\* drawPoint's clipping test, lines 92-93.  A comparison with NaN is false;
\* an infinity fails one of the two tests on its coordinate.
Visible(point, w, h) ==
  /\ point.x # NotFinite /\ point.y # NotFinite
  /\ point.x >= 0 /\ point.y >= 0
  /\ point.x < FromInt(w) /\ point.y < FromInt(h)

\* ---------------------------------------------------------------- inputs

\* Values Vector3.TransformCoordinates can return for a vertex (x and y only;
\* project does not read z): the centre, a point whose screen column lies
\* strictly between -1 and 0, one whose screen column and row both do, points
\* right of, below and above-left of the screen, and the result of a division
\* by a zero w.
TransformedPoints ==
  { Vector2(0, 0),
    Vector2(0 - (Res + 1), 0),
    Vector2(0 - (Res + 1), Res + 1),
    Vector2(Res, 0),
    Vector2(0, 0 - Res),
    Vector2(0 - 3 * Res, 3 * Res),
    Vector2(NotFinite, NotFinite) }

\* Points a caller passes to drawPoint and putPixel on a w x h Device.
DevicePoints(w, h) ==
  { Vector2(0, 0),
    Vector2(w * Res + 1, h * Res + 1),
    Vector2(0 - Res, 0),
    Vector2(FromInt(w), 0),
    Vector2(FromInt(w), 0 - Den),
    Vector2(0, 0 - Den),
    Vector2(0, FromInt(h)),
    Vector2(NotFinite, 0) }

\* new Mesh("Cube", 8)
CubeVertices == 8

RECURSIVE SumSeq(_)
SumSeq(s) == IF s = <<>> THEN 0 ELSE s[1] + SumSeq(Tail(s))

\* Scenes passed to render: the number of vertices of each mesh, in order;
\* at most MaxMeshes meshes and MaxVertices vertices in all.
Scenes ==
  { scene \in UNION { [1..n -> 0..MaxVertices] : n \in 0..MaxMeshes } :
      SumSeq(scene) <= MaxVertices }

\* ---------------------------------------------------------------- state

VARIABLES
  canvas,          \* document.getElementById("viewer"): present?, width, height
  contextKind,     \* what canvas.getContext("2d") returns: "2d" or "null"
  canvasPixels,    \* the bitmap of the canvas, the external display surface
  workingContext,  \* Device.workingContext: "unset", "2d" or "null"
  workingWidth,    \* Device.workingWidth
  workingHeight,   \* Device.workingHeight
  backbuffer,      \* Device.backbuffer
  backbufferdata,  \* Device.backbufferdata: "unset", "current" or "stale"
  meshes,          \* the meshes render walks: vertex count of each
  rotation,        \* mesh.Rotation.x and .y, in steps of 0.01
  rafQueue,        \* callbacks requestAnimationFrame has pending
  pc,              \* position of the running code
  ret,             \* where render returns to
  index,           \* render's mesh loop variable
  indexVertices,   \* render's vertex loop variable
  last,            \* history: the last Device call and what it did
  renderFromClear, \* history: the running render directly followed a clear()
  projected,       \* history: the points project returned in that render
  frameTrace       \* history: the steps of the current drawingLoop call

vars == <<canvas, contextKind, canvasPixels, workingContext, workingWidth,
          workingHeight, backbuffer, backbufferdata, meshes, rotation,
          rafQueue, pc, ret, index, indexVertices, last, renderFromClear,
          projected, frameTrace>>

envVars == <<canvas, contextKind>>
deviceFields == <<workingContext, workingWidth, workingHeight>>
loopVars == <<index, indexVertices>>

Call(op, x, y, threw, put, px, py, idx) ==
  [op |-> op, x |-> x, y |-> y, threw |-> threw, put |-> put,
   px |-> px, py |-> py, index |-> idx]
NoCall == Call("none", 0, 0, FALSE, FALSE, 0, 0, 0)
Simple(op, threw) == Call(op, 0, 0, threw, FALSE, 0, 0, 0)

CanvasSizes == (1..MaxWidth) \X (1..MaxHeight)

\* ---------------------------------------------------------------- Device operations

\* The body of clear(), lines 47-50, on a Device that holds a context.
DeviceClear ==
  /\ canvasPixels' = ClearRect(canvasPixels, workingWidth, workingHeight)
  /\ backbuffer' = GetImageData(canvasPixels', workingWidth, workingHeight)
  /\ backbufferdata' = IF backbufferdata = "current" THEN "stale" ELSE backbufferdata

\* clear() throws a TypeError when workingContext is null.
ClearThrows == workingContext # "2d"

\* present() throws a TypeError when workingContext is null or when the
\* back buffer is still undefined.
PresentThrows == workingContext # "2d" \/ backbuffer = Undefined

\* putPixel throws a TypeError at line 61 when the back buffer is undefined.
PutPixelThrows == backbuffer = Undefined

\* The body of putPixel(x, y, color), lines 61-73.
DevicePutPixel(x, y, color) ==
  /\ backbufferdata' = "current"
  /\ backbuffer' = [backbuffer EXCEPT
                      !.data = PutPixelData(backbuffer.data, x, y, color, workingWidth)]

\* ---------------------------------------------------------------- render

\* render(camera, meshes) up to its first loop test, lines 103-107.
RenderStart(scene, back) ==
  /\ meshes' = scene
  /\ index' = 0
  /\ indexVertices' = 0
  /\ ret' = back
  /\ pc' = "renderLoop"
  /\ renderFromClear' = (last.op = "clear" /\ ~last.threw)
  /\ projected' = {}

\* One pass of the inner loop, lines 118-123: project the vertex, drawPoint.
RenderVertex ==
  /\ pc = "renderLoop"
  /\ index < Len(meshes)
  /\ indexVertices < meshes[index + 1]
  /\ \E tp \in TransformedPoints :
       LET pp == Project(tp, workingWidth, workingHeight)
           draw == Visible(pp, workingWidth, workingHeight)
       IN IF draw /\ PutPixelThrows
          THEN /\ pc' = IF ret = "ready" THEN "ready" ELSE "crashed"
               /\ last' = Call("render", pp.x, pp.y, TRUE, TRUE, pp.x, pp.y, 0)
               /\ UNCHANGED <<backbuffer, backbufferdata, indexVertices, projected>>
          ELSE /\ IF draw THEN DevicePutPixel(pp.x, pp.y, Yellow)
                  ELSE UNCHANGED <<backbuffer, backbufferdata>>
               /\ indexVertices' = indexVertices + 1
               /\ last' = Call("vertex", pp.x, pp.y, FALSE, draw, pp.x, pp.y,
                               IF draw THEN PutPixelIndex(pp.x, pp.y, workingWidth) ELSE 0)
               /\ projected' = IF renderFromClear THEN projected \cup {pp} ELSE projected
               /\ pc' = pc
  /\ UNCHANGED <<envVars, deviceFields, canvasPixels, meshes, rotation, rafQueue,
                 ret, index, renderFromClear, frameTrace>>

\* The inner loop ends: the outer loop takes the next mesh, lines 107-117.
RenderNextMesh ==
  /\ pc = "renderLoop"
  /\ index < Len(meshes)
  /\ indexVertices = meshes[index + 1]
  /\ index' = index + 1
  /\ indexVertices' = 0
  /\ UNCHANGED <<envVars, deviceFields, canvasPixels, backbuffer, backbufferdata,
                 meshes, rotation, rafQueue, pc, ret, last, renderFromClear,
                 projected, frameTrace>>

\* The outer loop ends and render returns, line 125.
RenderReturn ==
  /\ pc = "renderLoop"
  /\ index = Len(meshes)
  /\ pc' = ret
  /\ last' = Simple("render", FALSE)
  /\ UNCHANGED <<envVars, deviceFields, canvasPixels, backbuffer, backbufferdata,
                 meshes, rotation, rafQueue, ret, loopVars, renderFromClear,
                 projected, frameTrace>>

\* ---------------------------------------------------------------- main.ts

NoCanvas == [present |-> FALSE, width |-> 0, height |-> 0]
Canvas(w, h) == [present |-> TRUE, width |-> w, height |-> h]

\* The page before init() runs: the "viewer" canvas may be missing, and its
\* getContext("2d") may return null.
Init ==
  /\ canvas \in {NoCanvas} \cup {Canvas(s[1], s[2]) : s \in CanvasSizes}
  /\ contextKind \in {"2d", "null"}
  /\ canvasPixels = Zeros(canvas.width * canvas.height * 4)
  /\ workingContext = "unset"
  /\ workingWidth = 0
  /\ workingHeight = 0
  /\ backbuffer = Undefined
  /\ backbufferdata = "unset"
  /\ meshes = <<>>
  /\ rotation = 0
  /\ rafQueue = 0
  /\ pc = "start"
  /\ ret = "none"
  /\ index = 0
  /\ indexVertices = 0
  /\ last = NoCall
  /\ renderFromClear = FALSE
  /\ projected = {}
  /\ frameTrace = <<>>

\* init(), lines 135-156.  new Device(canvas) reads canvas.width: a missing
\* canvas throws there, after the mesh was pushed and before the frame is
\* requested.  A null context is stored as it is (the `!` checks nothing).
InitProgram ==
  /\ pc = "start"
  /\ meshes' = Append(meshes, CubeVertices)
  /\ IF canvas.present
     THEN /\ workingWidth' = canvas.width
          /\ workingHeight' = canvas.height
          /\ workingContext' = contextKind
          /\ rafQueue' = rafQueue + 1
          /\ pc' = "idle"
     ELSE /\ pc' = "initFailed"
          /\ UNCHANGED <<deviceFields, rafQueue>>
  /\ UNCHANGED <<envVars, canvasPixels, backbuffer, backbufferdata, rotation, ret,
                 loopVars, last, renderFromClear, projected, frameTrace>>

\* The browser runs a pending animation-frame callback: drawingLoop starts.
RunFrame ==
  /\ pc = "idle"
  /\ rafQueue > 0
  /\ rotation < MaxFrames
  /\ rafQueue' = rafQueue - 1
  /\ pc' = "clear"
  /\ frameTrace' = <<>>
  /\ UNCHANGED <<envVars, deviceFields, canvasPixels, backbuffer, backbufferdata,
                 meshes, rotation, ret, loopVars, last, renderFromClear, projected>>

\* drawingLoop line 159: device.clear().
FrameClear ==
  /\ pc = "clear"
  /\ IF ClearThrows
     THEN /\ pc' = "crashed"
          /\ last' = Simple("clear", TRUE)
          /\ UNCHANGED <<canvasPixels, backbuffer, backbufferdata, frameTrace>>
     ELSE /\ DeviceClear
          /\ pc' = "rotate"
          /\ last' = Simple("clear", FALSE)
          /\ frameTrace' = Append(frameTrace, "clear")
  /\ UNCHANGED <<envVars, deviceFields, meshes, rotation, rafQueue, ret, loopVars,
                 renderFromClear, projected>>

\* drawingLoop lines 162-163: the mesh rotation grows by 0.01.
FrameRotate ==
  /\ pc = "rotate"
  /\ rotation' = rotation + 1
  /\ pc' = "render"
  /\ frameTrace' = Append(frameTrace, "rotate")
  /\ UNCHANGED <<envVars, deviceFields, canvasPixels, backbuffer, backbufferdata,
                 meshes, rafQueue, ret, loopVars, last, renderFromClear, projected>>

\* drawingLoop line 166: device.render(mera, meshes) is entered.
FrameRender ==
  /\ pc = "render"
  /\ RenderStart(meshes, "present")
  /\ frameTrace' = Append(frameTrace, "render")
  /\ UNCHANGED <<envVars, deviceFields, canvasPixels, backbuffer, backbufferdata,
                 rotation, rafQueue, last>>

\* drawingLoop line 168: device.present().
FramePresent ==
  /\ pc = "present"
  /\ IF PresentThrows
     THEN /\ pc' = "crashed"
          /\ last' = Simple("present", TRUE)
          /\ UNCHANGED <<canvasPixels, frameTrace>>
     ELSE /\ canvasPixels' = PutImageData(canvasPixels, backbuffer)
          /\ pc' = "schedule"
          /\ last' = Simple("present", FALSE)
          /\ frameTrace' = Append(frameTrace, "present")
  /\ UNCHANGED <<envVars, deviceFields, backbuffer, backbufferdata, meshes, rotation,
                 rafQueue, ret, loopVars, renderFromClear, projected>>

\* drawingLoop line 171: requestAnimationFrame(drawingLoop), then it returns.
FrameSchedule ==
  /\ pc = "schedule"
  /\ rafQueue' = rafQueue + 1
  /\ pc' = "idle"
  /\ frameTrace' = Append(frameTrace, "requestAnimationFrame")
  /\ UNCHANGED <<envVars, deviceFields, canvasPixels, backbuffer, backbufferdata,
                 meshes, rotation, ret, loopVars, last, renderFromClear, projected>>

Next ==
  \/ InitProgram
  \/ RunFrame
  \/ FrameClear
  \/ FrameRotate
  \/ FrameRender
  \/ RenderVertex
  \/ RenderNextMesh
  \/ RenderReturn
  \/ FramePresent
  \/ FrameSchedule

Spec == Init /\ [][Next]_vars

\* ---------------------------------------------------------------- Device, called directly

\* A Device constructed on an existing canvas (lines 37-42), before any call.
InitDevice ==
  /\ canvas \in {Canvas(s[1], s[2]) : s \in CanvasSizes}
  /\ contextKind \in {"2d", "null"}
  /\ canvasPixels = Zeros(canvas.width * canvas.height * 4)
  /\ workingContext = contextKind
  /\ workingWidth = canvas.width
  /\ workingHeight = canvas.height
  /\ backbuffer = Undefined
  /\ backbufferdata = "unset"
  /\ meshes = <<>>
  /\ rotation = 0
  /\ rafQueue = 0
  /\ pc = "ready"
  /\ ret = "ready"
  /\ index = 0
  /\ indexVertices = 0
  /\ last = NoCall
  /\ renderFromClear = FALSE
  /\ projected = {}
  /\ frameTrace = <<>>

\* What every direct call leaves alone; the previous render's frame is gone.
NewCall ==
  /\ pc = "ready"
  /\ meshes' = <<>>
  /\ index' = 0
  /\ indexVertices' = 0
  /\ renderFromClear' = FALSE
  /\ projected' = {}
  /\ UNCHANGED <<envVars, deviceFields, rotation, rafQueue, pc, ret, frameTrace>>

\* device.clear()
CallClear ==
  /\ NewCall
  /\ IF ClearThrows
     THEN /\ last' = Simple("clear", TRUE)
          /\ UNCHANGED <<canvasPixels, backbuffer, backbufferdata>>
     ELSE /\ DeviceClear
          /\ last' = Simple("clear", FALSE)

\* device.present()
CallPresent ==
  /\ NewCall
  /\ IF PresentThrows
     THEN /\ last' = Simple("present", TRUE)
          /\ UNCHANGED canvasPixels
     ELSE /\ canvasPixels' = PutImageData(canvasPixels, backbuffer)
          /\ last' = Simple("present", FALSE)
  /\ UNCHANGED <<backbuffer, backbufferdata>>

\* device.putPixel(x, y, color)
CallPutPixel ==
  /\ NewCall
  /\ \E p \in DevicePoints(workingWidth, workingHeight), color \in Colors :
       IF PutPixelThrows
       THEN /\ last' = Call("putPixel", p.x, p.y, TRUE, TRUE, p.x, p.y, 0)
            /\ UNCHANGED <<backbuffer, backbufferdata>>
       ELSE /\ DevicePutPixel(p.x, p.y, color)
            /\ last' = Call("putPixel", p.x, p.y, FALSE, TRUE, p.x, p.y,
                            PutPixelIndex(p.x, p.y, workingWidth))
  /\ UNCHANGED canvasPixels

\* device.drawPoint(point), lines 90-97
CallDrawPoint ==
  /\ NewCall
  /\ \E p \in DevicePoints(workingWidth, workingHeight) :
       LET draw == Visible(p, workingWidth, workingHeight)
       IN IF draw /\ PutPixelThrows
          THEN /\ last' = Call("drawPoint", p.x, p.y, TRUE, TRUE, p.x, p.y, 0)
               /\ UNCHANGED <<backbuffer, backbufferdata>>
          ELSE /\ IF draw THEN DevicePutPixel(p.x, p.y, Yellow)
                  ELSE UNCHANGED <<backbuffer, backbufferdata>>
               /\ last' = Call("drawPoint", p.x, p.y, FALSE, draw, p.x, p.y,
                               IF draw THEN PutPixelIndex(p.x, p.y, workingWidth) ELSE 0)
  /\ UNCHANGED canvasPixels

\* device.project(coord, transMat): changes nothing, returns a Vector2
CallProject ==
  /\ NewCall
  /\ \E tp \in TransformedPoints :
       LET pp == Project(tp, workingWidth, workingHeight)
       IN last' = Call("project", tp.x, tp.y, FALSE, FALSE, pp.x, pp.y, 0)
  /\ UNCHANGED <<canvasPixels, backbuffer, backbufferdata>>

\* device.render(camera, meshes) is entered
CallRender ==
  /\ pc = "ready"
  /\ \E scene \in Scenes : RenderStart(scene, "ready")
  /\ UNCHANGED <<envVars, deviceFields, canvasPixels, backbuffer, backbufferdata,
                 rotation, rafQueue, last, frameTrace>>

NextDevice ==
  \/ CallClear
  \/ CallPresent
  \/ CallPutPixel
  \/ CallDrawPoint
  \/ CallProject
  \/ CallRender
  \/ RenderVertex
  \/ RenderNextMesh
  \/ RenderReturn

SpecDevice == InitDevice /\ [][NextDevice]_vars

\* ---------------------------------------------------------------- properties

Abs(v) == IF v >= 0 THEN v ELSE 0 - v

\* The integer part of the finite number v, rounding toward zero.
TruncTowardZero(v) ==
  CHOOSE k \in (0 - Abs(v))..Abs(v) :
    IF v >= 0 THEN k >= 0 /\ k * Den <= v /\ v < (k + 1) * Den
    ELSE k <= 0 /\ (k - 1) * Den < v /\ v <= k * Den

\* The greatest integer not above the finite number v.
Floor(v) ==
  CHOOSE k \in (0 - Abs(v) - 1)..Abs(v) : k * Den <= v /\ v < (k + 1) * Den

\* point.x * width + width / 2 and -point.y * height + height / 2
ScreenX(x) == x * workingWidth + workingWidth * Res
ScreenY(y) == (0 - y) * workingHeight + workingHeight * Res

Background == <<0, 0, 0, 0>>
YellowBytes == <<255, 255, 0, 255>>
BufferLength == workingWidth * workingHeight * 4
PixelAt(data, x, y) == SubSeq(data, (y * workingWidth + x) * 4 + 1, (y * workingWidth + x) * 4 + 4)
Columns == 0..(workingWidth - 1)
Rows == 0..(workingHeight - 1)

\* x < 0, x >= width, y < 0 or y >= height, for a finite point
OutOfBounds(x, y) ==
  /\ x # NotFinite /\ y # NotFinite
  /\ x < 0 \/ x >= FromInt(workingWidth) \/ y < 0 \/ y >= FromInt(workingHeight)

\* 0 <= x < width and 0 <= y < height does not hold (NaN included)
ViolatesBounds(x, y) ==
  \/ x = NotFinite \/ y = NotFinite
  \/ x < 0 \/ x >= FromInt(workingWidth) \/ y < 0 \/ y >= FromInt(workingHeight)

\* C1: a drawPoint call on a point with x < 0, x >= width, y < 0 or
\* y >= height does not call putPixel, leaves the back buffer as it was and
\* throws nothing.
C1_DrawPointClips ==
  [][ (CallDrawPoint /\ OutOfBounds(last'.x, last'.y))
        => (~last'.put /\ ~last'.threw /\ backbuffer' = backbuffer) ]_vars

\* C1 witness: drawPoint discarded an out-of-bounds point on a Device that
\* holds a back buffer it could have written.
C1_Witness ==
  /\ last.op = "drawPoint" /\ OutOfBounds(last.x, last.y)
  /\ backbuffer # Undefined /\ ~last.put

\* C2: in the frame loop every putPixel call render makes has integer
\* coordinates with 0 <= x < width and 0 <= y < height, and writes at the
\* byte index ((y * width) + x) * 4, which lies in 0 .. width*height*4 - 4.
C2_RenderWritesInBounds ==
  (last.op = "vertex" /\ last.put) =>
    /\ \E x \in Columns, y \in Rows :
         /\ last.px = FromInt(x) /\ last.py = FromInt(y)
         /\ last.index = ((y * workingWidth) + x) * 4
    /\ last.index >= 0 /\ last.index <= BufferLength - 4

\* C2 witness: a vertex of the second frame was drawn, away from index 0.
C2_Witness ==
  last.op = "vertex" /\ last.put /\ last.index > 0 /\ rotation = 2

FullFrame == <<"clear", "rotate", "render", "present", "requestAnimationFrame">>

\* C3: every drawingLoop call performs clear, rotate, render, present in
\* that order and then requests exactly one further frame; a call that has
\* ended has done all of it, and no putPixel precedes the frame's clear.
C3_FrameSequence ==
  /\ Len(frameTrace) <= Len(FullFrame)
  /\ frameTrace = SubSeq(FullFrame, 1, Len(frameTrace))
  /\ (pc = "crashed" \/ (pc = "idle" /\ rotation > 0))
       => (frameTrace = FullFrame /\ rafQueue = 1)
  /\ (last.op = "vertex" /\ last.put) => (frameTrace # <<>> /\ frameTrace[1] = "clear")

\* C4 as stated: the display surface changes only at present().
C4_SurfaceOnlyAtPresent ==
  [][ /\ (canvasPixels' # canvasPixels) => FramePresent
      /\ (FramePresent /\ ~PresentThrows) => canvasPixels' = backbuffer.data ]_vars

\* C4 amended: the display surface changes only at clear(), which resets
\* every pixel of it to (0,0,0,0), and at present(), which copies the whole
\* back buffer unchanged; rotating and rendering (project, drawPoint,
\* putPixel) never alter it.
C4_SurfaceAtClearAndPresent ==
  [][ /\ (canvasPixels' # canvasPixels) => (FrameClear \/ FramePresent)
      /\ (FrameClear /\ ~ClearThrows) => canvasPixels' = Zeros(BufferLength)
      /\ (FramePresent /\ ~PresentThrows) => canvasPixels' = backbuffer.data ]_vars

\* C4 witness: the second frame was presented with a yellow pixel below the
\* first row, after that frame's clear() had blanked the surface.
C4_Witness ==
  /\ pc = "schedule" /\ rotation = 2
  /\ canvasPixels = backbuffer.data
  /\ \E x \in Columns, y \in Rows : y > 0 /\ PixelAt(canvasPixels, x, y) = YellowBytes

\* C5: whenever the Device holds a back buffer, its length is exactly
\* width * height * 4 for the width and height taken from the canvas at
\* construction; no call resizes it.
C5_BufferLength ==
  /\ workingWidth = canvas.width
  /\ workingHeight = canvas.height
  /\ backbuffer # Undefined =>
       /\ Len(backbuffer.data) = BufferLength
       /\ backbuffer.width = workingWidth
       /\ backbuffer.height = workingHeight

\* C5 witness: putPixel was called with an index at or past the end of the
\* buffer, and the buffer kept its length.
C5_Witness ==
  /\ last.op = "putPixel" /\ ~last.threw
  /\ last.index >= BufferLength
  /\ Len(backbuffer.data) = BufferLength

\* C6 as stated: putPixel called with coordinates outside the bounds fails
\* with an out-of-range access.
C6_OutOfRangeFails ==
  (last.op = "putPixel" /\ backbuffer # Undefined /\ ViolatesBounds(last.x, last.y))
    => last.threw

\* C6 amended: putPixel checks no bounds and raises nothing: called on an
\* existing back buffer with coordinates outside the bounds it computes
\* index = ((x >> 0) + (y >> 0) * width) * 4, overwrites the four bytes at
\* index when 0 <= index <= width*height*4 - 4 (a pixel inside the buffer),
\* and otherwise leaves every byte as it was.
C6_PutPixelUnchecked ==
  [][ (CallPutPixel /\ backbuffer # Undefined /\ ViolatesBounds(last'.x, last'.y))
        => LET tx == IF last'.x = NotFinite THEN 0 ELSE TruncTowardZero(last'.x)
               ty == IF last'.y = NotFinite THEN 0 ELSE TruncTowardZero(last'.y)
               i == (tx + ty * workingWidth) * 4
           IN /\ ~last'.threw
              /\ Len(backbuffer'.data) = BufferLength
              /\ \A j \in 1..BufferLength :
                   backbuffer'.data[j] =
                     IF i >= 0 /\ i <= BufferLength - 4 /\ j > i /\ j <= i + 4
                     THEN YellowBytes[j - i]
                     ELSE backbuffer.data[j] ]_vars

\* C6 witness: putPixel(width, 0) threw nothing and coloured pixel (0, 1).
C6_Witness ==
  /\ last.op = "putPixel" /\ ~last.threw
  /\ last.x = FromInt(workingWidth) /\ last.y = 0
  /\ workingHeight >= 2
  /\ PixelAt(backbuffer.data, 0, 1) = YellowBytes
  /\ PixelAt(backbuffer.data, 0, 0) = Background

\* C7: when the canvas is missing or getContext returns null, no frame
\* callback is ever scheduled or run.
C7_NoFrameWithoutSurface ==
  (~canvas.present \/ contextKind = "null")
    => (rafQueue = 0 /\ pc \in {"start", "initFailed"})

\* C8: right after clear() every pixel of the back buffer is (0,0,0,0),
\* whatever earlier frames wrote or presented.
C8_ClearResets ==
  (last.op = "clear" /\ ~last.threw) =>
    /\ Len(backbuffer.data) = BufferLength
    /\ \A x \in Columns, y \in Rows : PixelAt(backbuffer.data, x, y) = Background

\* C8 witness: the clear() of a later frame, after an earlier frame wrote
\* pixels into its buffer and presented them.
C8_Witness ==
  /\ last.op = "clear" /\ ~last.threw
  /\ rotation >= 1 /\ backbufferdata = "stale"

\* C9 as stated: project returns floor(p.x * width + width/2) and
\* floor(-p.y * height + height/2) for a finite transformed point p.
C9_ProjectFloors ==
  (last.op = "project" /\ last.x # NotFinite /\ last.y # NotFinite) =>
    /\ last.px = FromInt(Floor(ScreenX(last.x)))
    /\ last.py = FromInt(Floor(ScreenY(last.y)))

\* C9 amended: for a finite transformed point p, project returns
\* p.x * width + width/2 and -p.y * height + height/2 rounded toward zero,
\* so a screen coordinate strictly between -1 and 0 becomes 0, inside the
\* screen; a coordinate that is not finite becomes 0 too.
C9_ProjectTruncates ==
  last.op = "project" =>
    /\ last.x # NotFinite =>
         /\ last.px = FromInt(TruncTowardZero(ScreenX(last.x)))
         /\ (ScreenX(last.x) > 0 - Den /\ ScreenX(last.x) < 0) => last.px = 0
    /\ last.y # NotFinite =>
         /\ last.py = FromInt(TruncTowardZero(ScreenY(last.y)))
         /\ (ScreenY(last.y) > 0 - Den /\ ScreenY(last.y) < 0) => last.py = 0
    /\ last.x = NotFinite => last.px = 0
    /\ last.y = NotFinite => last.py = 0

\* C9 witness: project was applied to a point whose screen column and row
\* both lie strictly between -1 and 0, and returned (0, 0).
C9_Witness ==
  /\ last.op = "project"
  /\ last.x # NotFinite /\ ScreenX(last.x) > 0 - Den /\ ScreenX(last.x) < 0
  /\ last.y # NotFinite /\ ScreenY(last.y) > 0 - Den /\ ScreenY(last.y) < 0
  /\ last.px = 0 /\ last.py = 0

NonBackground ==
  { c \in Columns \X Rows : PixelAt(backbuffer.data, c[1], c[2]) # Background }

\* C10: after clear() followed by render(camera, meshes), a pixel (x, y) is
\* (255,255,0,255) exactly when some vertex projected to (x, y) inside the
\* screen, every other pixel is (0,0,0,0), and there are no more coloured
\* pixels than vertices.
C10_RenderResult ==
  (last.op = "render" /\ ~last.threw /\ renderFromClear) =>
    /\ \A x \in Columns, y \in Rows :
         PixelAt(backbuffer.data, x, y) =
           IF Vector2(FromInt(x), FromInt(y)) \in projected THEN YellowBytes
           ELSE Background
    /\ Cardinality(NonBackground) <= SumSeq(meshes)

\* C10 witness: a render of two meshes after clear() coloured two pixels,
\* one of them below the first row, and clipped nothing.
C10_Witness ==
  /\ last.op = "render" /\ ~last.threw /\ renderFromClear
  /\ Len(meshes) = 2 /\ meshes[1] > 0 /\ meshes[2] > 0
  /\ Cardinality(NonBackground) = 2
  /\ \E c \in NonBackground : c[2] > 0

====
